---- MODULE Spec2Model ----
(***************************************************************************)
(* Model of OpenAIService (server/src/services/openai.ts): the image        *)
(* analysis and update entry points, the response normalizer, the           *)
(* deterministic fallback record and the keyword-driven basic update.       *)
(*                                                                          *)
(* A JavaScript value is a record [t, n, s, a]: t is the type tag, n the    *)
(* number (or 1/0 of a boolean), s the text of a string and a the elements  *)
(* of an array.  A string is a sequence of text chunks; a chunk is a        *)
(* single character wherever the code inspects characters (Number(),        *)
(* trim, startsWith, split, the base64 regex, toLowerCase, includes).       *)
(* Numbers are integers; NaN is a value of its own.                         *)
(***************************************************************************)
EXTENDS Integers, Sequences, FiniteSets, TLC

VARIABLES
  apiKey,     \* process.env.OPENAI_API_KEY is set (and so the client exists)
  pc,         \* position of the current request
  entry,      \* entry point of the current request
  image,      \* imageBase64 argument
  language,   \* language argument
  original,   \* originalAnalysis argument
  updateText, \* updateText argument
  calls,      \* provider invocations made by the current request
  sentBody,   \* image bodies put in the data URIs handed to the provider
  outcome,    \* the provider's answer to the current request
  result,     \* how the current request ended
  raw,        \* input of normalizeAnalysisResponse
  rec,        \* current nutrition record
  prev,       \* record before the last getBasicUpdate
  originalAfter, \* the originalAnalysis object after the last getBasicUpdate
  lastText,   \* update text of the last getBasicUpdate
  op,         \* last pure operation applied
  steps,      \* getBasicUpdate calls applied to rec
  userMealPlan,        \* the userMealPlan table, by plan_id
  active_meal_plan_id, \* the active_meal_plan_id column of the user table
  questionnaire,       \* the users that have a userQuestionnaire row
  inflight             \* the MealPlanService calls in progress

vars == <<apiKey, pc, entry, image, language, original, updateText, calls,
          sentBody, outcome, result, raw, rec, prev, originalAfter, lastText, op, steps,
          userMealPlan, active_meal_plan_id, questionnaire, inflight>>

reqVars == <<apiKey, pc, entry, image, language, original, updateText, calls,
             sentBody, outcome, result>>

pureVars == <<raw, rec, prev, originalAfter, lastText, op, steps>>

planVars == <<userMealPlan, active_meal_plan_id, questionnaire, inflight>>

----------------------------------------------------------------------------
(* Bounds *)

MaxUpdates == 2

\* Rows the userMealPlan table can hold
MaxPlans == 2

\* MealPlanService calls in progress at the same time
MaxCalls == 2

----------------------------------------------------------------------------
(* JavaScript values *)

JUndef == [t |-> "undefined", n |-> 0, s |-> <<>>, a |-> <<>>]
JNull == [t |-> "null", n |-> 0, s |-> <<>>, a |-> <<>>]
JNaN == [t |-> "nan", n |-> 0, s |-> <<>>, a |-> <<>>]
JObj == [t |-> "object", n |-> 0, s |-> <<>>, a |-> <<>>]
JBool(b) == [t |-> "boolean", n |-> IF b THEN 1 ELSE 0, s |-> <<>>, a |-> <<>>]
JNum(k) == [t |-> "number", n |-> k, s |-> <<>>, a |-> <<>>]
JStr(str) == [t |-> "string", n |-> 0, s |-> str, a |-> <<>>]
JArr(els) == [t |-> "array", n |-> 0, s |-> <<>>, a |-> els]

Digits == {"0", "1", "2", "3", "4", "5", "6", "7", "8", "9"}

DigitVal(c) ==
  CASE c = "0" -> 0 [] c = "1" -> 1 [] c = "2" -> 2 [] c = "3" -> 3
    [] c = "4" -> 4 [] c = "5" -> 5 [] c = "6" -> 6 [] c = "7" -> 7
    [] c = "8" -> 8 [] c = "9" -> 9

WhiteSpace == {" ", "\t", "\n"}

RECURSIVE TrimStart(_)
TrimStart(str) ==
  IF str # <<>> /\ Head(str) \in WhiteSpace THEN TrimStart(Tail(str)) ELSE str

RECURSIVE TrimEnd(_)
TrimEnd(str) ==
  IF str # <<>> /\ str[Len(str)] \in WhiteSpace
  THEN TrimEnd(SubSeq(str, 1, Len(str) - 1))
  ELSE str

\* String.prototype.trim
Trim(str) == TrimEnd(TrimStart(str))

RECURSIVE DecimalValue(_)
DecimalValue(str) ==
  IF str = <<>> THEN 0
  ELSE 10 * DecimalValue(SubSeq(str, 1, Len(str) - 1)) + DigitVal(str[Len(str)])

IsDigits(str) == str # <<>> /\ \A i \in 1..Len(str) : str[i] \in Digits

\* Number(string) on integer literals: surrounding white space is dropped,
\* the empty string is 0, an optional sign, then decimal digits
StringToNumber(str) ==
  LET body == Trim(str) IN
  IF body = <<>> THEN JNum(0)
  ELSE IF Head(body) = "-" /\ IsDigits(Tail(body)) THEN JNum(0 - DecimalValue(Tail(body)))
  ELSE IF Head(body) = "+" /\ IsDigits(Tail(body)) THEN JNum(DecimalValue(Tail(body)))
  ELSE IF IsDigits(body) THEN JNum(DecimalValue(body))
  ELSE JNaN

\* Number(v)
ToNumber(v) ==
  CASE v.t = "undefined" -> JNaN
    [] v.t = "null" -> JNum(0)
    [] v.t = "boolean" -> JNum(v.n)
    [] v.t = "number" -> v
    [] v.t = "nan" -> JNaN
    [] v.t = "string" -> StringToNumber(v.s)
    [] v.t = "array" -> IF v.a = <<>> THEN JNum(0) ELSE JNaN
    [] v.t = "object" -> JNaN

\* ToBoolean(v)
Truthy(v) ==
  CASE v.t \in {"undefined", "null", "nan"} -> FALSE
    [] v.t = "boolean" -> v.n = 1
    [] v.t = "number" -> v.n # 0
    [] v.t = "string" -> v.s # <<>>
    [] v.t \in {"array", "object"} -> TRUE

\* a || b
Or(x, y) == IF Truthy(x) THEN x ELSE y

\* Math.round(v * num / den): NaN stays NaN, halves round towards +Infinity
MulRound(v, num, den) ==
  LET x == ToNumber(v) IN
  IF x.t = "nan" THEN JNaN
  ELSE JNum((2 * x.n * num + den) \div (2 * den))

MaxFloorNoFloor(v) ==
  LET x == ToNumber(v) IN
  IF x.t = "nan" THEN JNaN ELSE JNum(x.n - 10)

MaxFloorPlusTen(v) ==
  LET x == ToNumber(v) IN
  IF x.t = "nan" THEN JNaN
  ELSE JNum(IF x.n + 10 > 50 THEN x.n + 10 ELSE 50)

\* Math.max(50, v - 10): NaN if v - 10 is NaN
MaxFloor(v) ==
  LET x == ToNumber(v) IN
  IF x.t = "nan" THEN JNaN
  ELSE JNum(IF x.n - 10 > 50 THEN x.n - 10 ELSE 50)

----------------------------------------------------------------------------
(* Text *)

\* A text constant the code never looks into, as a one-chunk string
Str(chunk) == JStr(<<chunk>>)

LowerChar(c) ==
  CASE c = "A" -> "a" [] c = "B" -> "b" [] c = "C" -> "c" [] c = "D" -> "d"
    [] c = "E" -> "e" [] c = "F" -> "f" [] c = "G" -> "g" [] c = "H" -> "h"
    [] c = "I" -> "i" [] c = "J" -> "j" [] c = "K" -> "k" [] c = "L" -> "l"
    [] c = "M" -> "m" [] c = "N" -> "n" [] c = "O" -> "o" [] c = "P" -> "p"
    [] c = "Q" -> "q" [] c = "R" -> "r" [] c = "S" -> "s" [] c = "T" -> "t"
    [] c = "U" -> "u" [] c = "V" -> "v" [] c = "W" -> "w" [] c = "X" -> "x"
    [] c = "Y" -> "y" [] c = "Z" -> "z" [] OTHER -> c

\* String.prototype.toLowerCase
ToLowerCase(str) == [i \in 1..Len(str) |-> LowerChar(str[i])]

\* String.prototype.includes
Includes(str, sub) ==
  \E i \in 0..(Len(str) - Len(sub)) :
    \A j \in 1..Len(sub) : str[i + j] = sub[j]

\* String.prototype.startsWith
StartsWith(str, pre) ==
  /\ Len(str) >= Len(pre)
  /\ \A j \in 1..Len(pre) : str[j] = pre[j]

\* English keywords of getBasicUpdate
KwMoreProtein == <<"m", "o", "r", "e", " ", "p", "r", "o", "t", "e", "i", "n">>
KwLessCalories == <<"l", "e", "s", "s", " ", "c", "a", "l", "o", "r", "i", "e", "s">>
KwMoreVegetables ==
  <<"m", "o", "r", "e", " ", "v", "e", "g", "e", "t", "a", "b", "l", "e", "s">>

\* Hebrew keywords of getBasicUpdate, one chunk per Hebrew letter
KwProteinHe == <<"he-het", "he-lamed", "he-bet", "he-vav", "he-nun">>
KwLessCaloriesHe ==
  <<"he-pe", "he-het", "he-vav", "he-tav", " ",
    "he-qof", "he-lamed", "he-vav", "he-resh", "he-yod", "he-vav", "he-tav">>
KwVegetablesHe == <<"he-yod", "he-resh", "he-qof", "he-vav", "he-tav">>

----------------------------------------------------------------------------
(* Nutrition records *)

\* The numeric fields that default to 0
ZeroDefaultFields ==
  {"calories", "protein", "carbs", "fat", "fiber", "sugar", "sodium",
   "saturated_fats_g", "polyunsaturated_fats_g", "monounsaturated_fats_g",
   "omega_3_g", "omega_6_g", "soluble_fiber_g", "insoluble_fiber_g",
   "cholesterol_mg", "alcohol_g", "caffeine_mg", "liquids_ml"}

NumericFields == ZeroDefaultFields \cup {"serving_size_g", "confidence"}

NullableFields == {"glycemic_index", "insulin_index"}

TextFields ==
  {"name", "description", "food_category", "processing_level",
   "cooking_method", "health_risk_notes", "healthNotes", "recommendations"}

AliasFields ==
  {"meal_name", "protein_g", "carbs_g", "fats_g", "fiber_g", "sugar_g", "sodium_mg"}

\* Every field of the record normalizeAnalysisResponse builds
RecordFields ==
  NumericFields \cup NullableFields \cup TextFields \cup AliasFields \cup {"ingredients"}

\* {}
EmptyObject == [f \in RecordFields |-> JUndef]

NumberOrZero(x, d) == Or(ToNumber(x), JNum(0))

\* Number(x) || d
NumberOr(x, d) == Or(ToNumber(x), JNum(d))

\* The record literal of normalizeAnalysisResponse, for an analysis whose
\* properties can be read
normalizeAnalysisResponse(analysis) ==
  [name |-> Or(analysis.name, Str("Unknown Meal")),
   description |-> Or(analysis.description, JStr(<<>>)),
   calories |-> NumberOr(analysis.calories, 0),
   protein |-> NumberOr(analysis.protein, 0),
   carbs |-> NumberOr(analysis.carbs, 0),
   fat |-> NumberOr(analysis.fat, 0),
   fiber |-> NumberOr(analysis.fiber, 0),
   sugar |-> NumberOr(analysis.sugar, 0),
   sodium |-> NumberOr(analysis.sodium, 0),
   saturated_fats_g |-> NumberOr(analysis.saturated_fats_g, 0),
   polyunsaturated_fats_g |-> NumberOr(analysis.polyunsaturated_fats_g, 0),
   monounsaturated_fats_g |-> NumberOr(analysis.monounsaturated_fats_g, 0),
   omega_3_g |-> NumberOr(analysis.omega_3_g, 0),
   omega_6_g |-> NumberOr(analysis.omega_6_g, 0),
   soluble_fiber_g |-> NumberOr(analysis.soluble_fiber_g, 0),
   insoluble_fiber_g |-> NumberOr(analysis.insoluble_fiber_g, 0),
   cholesterol_mg |-> NumberOr(analysis.cholesterol_mg, 0),
   alcohol_g |-> NumberOr(analysis.alcohol_g, 0),
   caffeine_mg |-> NumberOr(analysis.caffeine_mg, 0),
   liquids_ml |-> NumberOr(analysis.liquids_ml, 0),
   serving_size_g |-> NumberOr(analysis.serving_size_g, 100),
   glycemic_index |->
     IF Truthy(analysis.glycemic_index) THEN ToNumber(analysis.glycemic_index) ELSE JNull,
   insulin_index |->
     IF Truthy(analysis.insulin_index) THEN ToNumber(analysis.insulin_index) ELSE JNull,
   food_category |-> Or(analysis.food_category, Str("Mixed")),
   processing_level |-> Or(analysis.processing_level, Str("Moderate")),
   cooking_method |-> Or(analysis.cooking_method, Str("Mixed")),
   health_risk_notes |-> Or(analysis.health_risk_notes, JStr(<<>>)),
   confidence |-> NumberOr(analysis.confidence, 75),
   ingredients |->
     IF analysis.ingredients.t = "array" THEN analysis.ingredients ELSE JArr(<<>>),
   healthNotes |-> Or(Or(analysis.healthNotes, analysis.recommendations), JStr(<<>>)),
   recommendations |-> Or(Or(analysis.recommendations, analysis.healthNotes), JStr(<<>>)),
   meal_name |-> Or(analysis.name, Str("Unknown Meal")),
   protein_g |-> NumberOr(analysis.protein, 0),
   carbs_g |-> NumberOr(analysis.carbs, 0),
   fats_g |-> NumberOr(analysis.fat, 0),
   fiber_g |-> NumberOr(analysis.fiber, 0),
   sugar_g |-> NumberOr(analysis.sugar, 0),
   sodium_mg |-> NumberOr(analysis.sodium, 0)]

\* One entry of the ingredients array
Ingredient(nm, cal, pro, carb, ft, fib, sug, sod) ==
  [name |-> nm, calories |-> cal, protein |-> pro, carbs |-> carb,
   fat |-> ft, fiber |-> fib, sugar |-> sug, sodium_mg |-> sod]

getFallbackAnalysis(lang) ==
  LET isHebrew == (lang = "hebrew") IN
  [name |-> IF isHebrew THEN Str("he:Analyzed Meal") ELSE Str("Analyzed Meal"),
   description |->
     IF isHebrew THEN Str("he:Basic meal analysis") ELSE Str("Basic meal analysis"),
   calories |-> JNum(400),
   protein |-> JNum(25),
   carbs |-> JNum(45),
   fat |-> JNum(15),
   fiber |-> JNum(8),
   sugar |-> JNum(10),
   sodium |-> JNum(600),
   saturated_fats_g |-> JNum(5),
   polyunsaturated_fats_g |-> JNum(3),
   monounsaturated_fats_g |-> JNum(7),
   omega_3_g |-> JNum(1),
   omega_6_g |-> JNum(2),
   soluble_fiber_g |-> JNum(4),
   insoluble_fiber_g |-> JNum(4),
   cholesterol_mg |-> JNum(50),
   alcohol_g |-> JNum(0),
   caffeine_mg |-> JNum(0),
   liquids_ml |-> JNum(200),
   serving_size_g |-> JNum(250),
   glycemic_index |-> JNum(55),
   insulin_index |-> JNum(45),
   food_category |-> IF isHebrew THEN Str("he:Mixed") ELSE Str("Mixed"),
   processing_level |-> IF isHebrew THEN Str("he:Moderate") ELSE Str("Moderate"),
   cooking_method |-> IF isHebrew THEN Str("he:Mixed") ELSE Str("Mixed"),
   health_risk_notes |-> JStr(<<>>),
   confidence |-> JNum(70),
   ingredients |->
     JArr(<<Ingredient(IF isHebrew THEN "he:Main ingredient" ELSE "Main ingredient",
                       200, 15, 25, 8, 4, 5, 300),
            Ingredient(IF isHebrew THEN "he:Secondary ingredient" ELSE "Secondary ingredient",
                       200, 10, 20, 7, 4, 5, 300)>>),
   healthNotes |->
     IF isHebrew THEN Str("he:Basic analysis - for more accurate results, add OpenAI API key")
     ELSE Str("Basic analysis - for more accurate results, add OpenAI API key"),
   recommendations |->
     IF isHebrew THEN Str("he:General healthy nutrition recommendations")
     ELSE Str("General healthy nutrition recommendations"),
   meal_name |-> IF isHebrew THEN Str("he:Analyzed Meal") ELSE Str("Analyzed Meal"),
   protein_g |-> JNum(25),
   carbs_g |-> JNum(45),
   fats_g |-> JNum(15),
   fiber_g |-> JNum(8),
   sugar_g |-> JNum(10),
   sodium_mg |-> JNum(600)]

\* The three keyword tests of getBasicUpdate on the lower-cased text
MatchesProtein(text) ==
  LET lowerUpdate == ToLowerCase(text) IN
  Includes(lowerUpdate, KwMoreProtein) \/ Includes(lowerUpdate, KwProteinHe)

MatchesCalories(text) ==
  LET lowerUpdate == ToLowerCase(text) IN
  Includes(lowerUpdate, KwLessCalories) \/ Includes(lowerUpdate, KwLessCaloriesHe)

MatchesVegetables(text) ==
  LET lowerUpdate == ToLowerCase(text) IN
  Includes(lowerUpdate, KwMoreVegetables) \/ Includes(lowerUpdate, KwVegetablesHe)

getBasicUpdateElseIf(originalAnalysis, text) ==
  LET updated == originalAnalysis
      u1 == IF MatchesProtein(text)
            THEN [updated EXCEPT
                    !.protein = MulRound(updated.protein, 12, 10),
                    !.protein_g = MulRound(updated.protein, 12, 10)]
            ELSE IF MatchesCalories(text)
            THEN [updated EXCEPT !.calories = MulRound(updated.calories, 8, 10)]
            ELSE IF MatchesVegetables(text)
            THEN [updated EXCEPT
                    !.fiber = MulRound(updated.fiber, 13, 10),
                    !.fiber_g = MulRound(updated.fiber, 13, 10)]
            ELSE updated
  IN [u1 EXCEPT
        !.healthNotes = JStr(<<"Updated based on user input: ">> \o text),
        !.confidence = MaxFloor(u1.confidence)]

getBasicUpdateNoAlias(originalAnalysis, text) ==
  LET updated == originalAnalysis
      u1 == IF MatchesProtein(text)
            THEN [updated EXCEPT !.protein = MulRound(updated.protein, 12, 10)]
            ELSE updated
      u2 == IF MatchesCalories(text)
            THEN [u1 EXCEPT !.calories = MulRound(u1.calories, 8, 10)]
            ELSE u1
      u3 == IF MatchesVegetables(text)
            THEN [u2 EXCEPT !.fiber = MulRound(u2.fiber, 13, 10)]
            ELSE u2
  IN [u3 EXCEPT
        !.healthNotes = JStr(<<"Updated based on user input: ">> \o text),
        !.confidence = MaxFloor(u3.confidence)]

\* getBasicUpdate: the returned record; originalAnalysis itself is only read
getBasicUpdate(originalAnalysis, text) ==
  LET updated == originalAnalysis
      u1 == IF MatchesProtein(text)
            THEN [updated EXCEPT
                    !.protein = MulRound(updated.protein, 12, 10),
                    !.protein_g = MulRound(updated.protein, 12, 10)]
            ELSE updated
      u2 == IF MatchesCalories(text)
            THEN [u1 EXCEPT !.calories = MulRound(u1.calories, 8, 10)]
            ELSE u1
      u3 == IF MatchesVegetables(text)
            THEN [u2 EXCEPT
                    !.fiber = MulRound(u2.fiber, 13, 10),
                    !.fiber_g = MulRound(u2.fiber, 13, 10)]
            ELSE u2
  IN [u3 EXCEPT
        !.healthNotes = JStr(<<"Updated based on user input: ">> \o text),
        !.confidence = MaxFloor(u3.confidence)]

getBasicUpdateInPlace(originalAnalysis, text) ==
  [original |-> getBasicUpdate(originalAnalysis, text),
   returned |-> getBasicUpdate(originalAnalysis, text)]

\* A call of getBasicUpdate with its effect on the heap: the assignments go
\* to the spread copy { ...originalAnalysis }, which is returned, and the
\* object passed in is left as it was
getBasicUpdateCall(originalAnalysis, text) ==
  [original |-> originalAnalysis,
   returned |-> getBasicUpdate(originalAnalysis, text)]

----------------------------------------------------------------------------
(* Image payload validation of analyzeMealImage *)

Letters ==
  {"A", "B", "C", "D", "E", "F", "G", "H", "I", "J", "K", "L", "M", "N", "O",
   "P", "Q", "R", "S", "T", "U", "V", "W", "X", "Y", "Z",
   "a", "b", "c", "d", "e", "f", "g", "h", "i", "j", "k", "l", "m", "n", "o",
   "p", "q", "r", "s", "t", "u", "v", "w", "x", "y", "z"}

\* [A-Za-z0-9+/]
Base64Chars == Letters \cup Digits \cup {"+", "/"}

\* "data:image/"
DataImagePrefix == <<"d", "a", "t", "a", ":", "i", "m", "a", "g", "e", "/">>

\* "undefined", the text of an undefined value
UndefinedText == <<"u", "n", "d", "e", "f", "i", "n", "e", "d">>

\* A string or undefined
Defined(str) == [def |-> TRUE, s |-> str]
Undefined == [def |-> FALSE, s |-> <<>>]

\* String(x) of a string or undefined, as a template literal and
\* RegExp.prototype.test make it
ToText(x) == IF x.def THEN x.s ELSE UndefinedText

RECURSIVE UpToComma(_)
UpToComma(str) ==
  IF str = <<>> \/ Head(str) = "," THEN <<>>
  ELSE <<Head(str)>> \o UpToComma(Tail(str))

RECURSIVE AfterComma(_)
AfterComma(str) ==
  IF str = <<>> THEN Undefined
  ELSE IF Head(str) = "," THEN Defined(Tail(str))
  ELSE AfterComma(Tail(str))

\* str.split(",")[1]
SplitSecond(str) ==
  LET rest == AfterComma(str) IN
  IF rest.def THEN Defined(UpToComma(rest.s)) ELSE Undefined

\* /^[A-Za-z0-9+/]*={0,2}$/.test(x)
Base64RegexTest(x) ==
  LET str == ToText(x) IN
  \E pad \in 0..2 :
    /\ pad <= Len(str)
    /\ \A i \in 1..(Len(str) - pad) : str[i] \in Base64Chars
    /\ \A i \in (Len(str) - pad + 1)..Len(str) : str[i] = "="

\* !imageBase64 || imageBase64.trim() === ""
ImageMissing(imageBase64) == imageBase64 = <<>> \/ Trim(imageBase64) = <<>>

\* cleanBase64 of analyzeMealImage
CleanBase64(imageBase64) ==
  IF StartsWith(imageBase64, DataImagePrefix)
  THEN SplitSecond(imageBase64)
  ELSE Defined(imageBase64)

----------------------------------------------------------------------------
(* Errors and results *)

\* An Error; status 0 stands for an error without a status property
Err(msg, st) == [message |-> msg, status |-> st]

NoResult == [kind |-> "none", value |-> EmptyObject, message |-> ""]
Returned(r) == [kind |-> "returned", value |-> r, message |-> ""]
Thrown(msg) == [kind |-> "thrown", value |-> EmptyObject, message |-> msg]

\* A value parsePartialJSON can hand to the normalizer: an object with
\* readable properties, or null
RawObject(o) == [k |-> "object", o |-> o]
RawNull == [k |-> "null", o |-> EmptyObject]

\* The call this.normalizeAnalysisResponse(analysis): reading a property of
\* null raises a TypeError
NormalizeCall(analysis) ==
  IF analysis.k = "null"
  THEN [threw |-> TRUE, value |-> EmptyObject,
        error |-> Err("Cannot read properties of null", 0)]
  ELSE [threw |-> FALSE, value |-> normalizeAnalysisResponse(analysis.o),
        error |-> Err("", 0)]

AnalyzeCatchAlwaysFallback(error, lang) == Returned(getFallbackAnalysis(lang))

\* The catch block of analyzeMealImage
AnalyzeCatch(error, lang) ==
  IF error.status = 400 THEN Thrown("Invalid image data or request format")
  ELSE IF error.status = 401 THEN Thrown("OpenAI API authentication failed")
  ELSE IF error.status = 429
  THEN Thrown("OpenAI API rate limit exceeded. Please try again later.")
  ELSE IF error.status = 500 THEN Thrown("OpenAI service temporarily unavailable")
  ELSE Returned(getFallbackAnalysis(lang))

\* The catch block of updateMealAnalysis
UpdateCatch(error, originalAnalysis, text) ==
  Returned(getBasicUpdate(originalAnalysis, text))

\* What the code after the await does with the provider's answer: the
\* error it throws inside the try block, or the record it returns
AfterProvider(answer) ==
  IF answer.k = "rejected"
  THEN [threw |-> TRUE, value |-> EmptyObject, error |-> Err("provider error", answer.status)]
  ELSE IF answer.k = "noContent"
  THEN [threw |-> TRUE, value |-> EmptyObject, error |-> Err("No response from OpenAI", 0)]
  ELSE IF answer.k = "unparsable"
  THEN [threw |-> TRUE, value |-> EmptyObject, error |-> Err("parse error", 0)]
  ELSE NormalizeCall(answer.parsed)

InvokeTwice(n) == n + 2

\* One more provider invocation by the current request
Invoke(n) == n + 1

----------------------------------------------------------------------------
(* Inputs *)

Languages == {"english", "hebrew", "french"}

B64 == <<"Q", "U", "J", "D">>
PngBase64Comma == <<"p", "n", "g", ";", "b", "a", "s", "e", "6", "4", ",">>

\* imageBase64 arguments: empty, blank, plain base64 bodies (well and badly
\* formed) and data URIs (with a body, with nothing after the comma, with
\* no comma, with a bad body, with a second comma)
Images ==
  {<<>>,
   <<" ", " ">>,
   B64,
   B64 \o <<"=", "=">>,
   B64 \o <<"=", "=", "=">>,
   <<"Q", "!", "J">>,
   <<" ">> \o B64,
   DataImagePrefix \o PngBase64Comma \o B64,
   DataImagePrefix \o PngBase64Comma,
   DataImagePrefix \o <<"p", "n", "g">>,
   DataImagePrefix \o PngBase64Comma \o <<"Q", "!">>,
   DataImagePrefix \o PngBase64Comma \o B64 \o <<",", "!", "!">>}

WMore == <<"m", "o", "r", "e">>
WProtein == <<"p", "r", "o", "t", "e", "i", "n">>
WLess == <<"l", "e", "s", "s">>
WCalories == <<"c", "a", "l", "o", "r", "i", "e", "s">>
WVegetables == <<"v", "e", "g", "e", "t", "a", "b", "l", "e", "s">>
Sp == <<" ">>

\* updateText arguments
Texts ==
  {<<"o", "k">>,
   <<"I", " ", "w", "a", "n", "t", " ">> \o WMore \o Sp \o WProtein \o <<" ", "p", "l", "s">>,
   <<"M", "O", "R", "E", " ", "P", "r", "o", "t", "e", "i", "n">>,
   WMore \o Sp \o Sp \o WProtein,
   WLess \o Sp \o WCalories,
   WMore \o Sp \o WVegetables,
   WLess \o Sp \o WCalories \o Sp \o WMore \o Sp \o WVegetables \o Sp \o WMore \o Sp \o WProtein,
   KwProteinHe,
   KwLessCaloriesHe \o Sp \o KwVegetablesHe}

OneIngredient == <<Ingredient("Chicken", 100, 10, 0, 5, 0, 0, 300)>>

\* Values a property of the parsed provider answer can have
FieldValues ==
  {JUndef, JNull, JBool(TRUE), JBool(FALSE),
   JNum(0), JNum(5), JNum(45), JNum(55), JNum(200),
   JStr(<<>>), JStr(<<" ">>), JStr(<<"0">>), JStr(<<"2", "0", "0">>),
   JStr(<<" ", "1", "5", " ">>), JStr(<<"-", "5">>), Str("high"),
   JArr(<<>>), JArr(OneIngredient), JObj}

\* A well-formed provider answer
TypicalObject ==
  [EmptyObject EXCEPT
     !.name = Str("Chicken salad"),
     !.description = Str("Grilled chicken on greens"),
     !.calories = JNum(100),
     !.protein = JNum(10),
     !.carbs = JNum(20),
     !.fat = JNum(5),
     !.fiber = JNum(5),
     !.sugar = JNum(3),
     !.sodium = JNum(300),
     !.serving_size_g = JNum(250),
     !.glycemic_index = JNum(40),
     !.insulin_index = JNum(30),
     !.food_category = Str("Protein"),
     !.confidence = JNum(80),
     !.ingredients = JArr(OneIngredient),
     !.healthNotes = Str("Lean")]

\* The properties normalizeAnalysisResponse reads
RawFields == RecordFields \ AliasFields

\* The properties varied in the well-formed answer
VariedFields ==
  {"name", "calories", "protein", "fiber", "serving_size_g", "glycemic_index",
   "confidence", "ingredients", "healthNotes", "recommendations"}

\* Parsed provider answers: null, the empty object with any one property
\* set to any value, and the well-formed object with one of the varied
\* properties set to any value
RawInputs ==
  {RawNull} \cup
  {RawObject([EmptyObject EXCEPT ![f] = v]) : f \in RawFields, v \in FieldValues} \cup
  {RawObject([TypicalObject EXCEPT ![f] = v]) : f \in VariedFields, v \in FieldValues}

\* Answers of the provider to one invocation
ProviderOutcome(k, st, parsed) == [k |-> k, status |-> st, parsed |-> parsed]

\* No answer yet
NoOutcome == ProviderOutcome("none", 0, RawNull)

ProviderOutcomes ==
  {ProviderOutcome("rejected", st, RawNull) : st \in {0, 400, 401, 403, 429, 500, 503}} \cup
  {ProviderOutcome("noContent", 0, RawNull), ProviderOutcome("unparsable", 0, RawNull)} \cup
  {ProviderOutcome("content", 0, r) :
     r \in {RawNull, RawObject(EmptyObject), RawObject(TypicalObject),
            RawObject([TypicalObject EXCEPT !.confidence = JNum(0)])}}

\* originalAnalysis arguments of updateMealAnalysis
Originals ==
  {getFallbackAnalysis("english"),
   normalizeAnalysisResponse(TypicalObject),
   normalizeAnalysisResponse(EmptyObject)}

----------------------------------------------------------------------------
(* analyzeMealImage and updateMealAnalysis *)

Finished(res) == [await |-> FALSE, body |-> <<>>, result |-> res]
Awaiting(body) == [await |-> TRUE, body |-> body, result |-> NoResult]

AnalyzeBeginNoKeyCheck(key, imageBase64, lang) ==
  IF ImageMissing(imageBase64)
  THEN Finished(AnalyzeCatch(Err("Image data is required", 0), lang))
  ELSE IF ~Base64RegexTest(CleanBase64(imageBase64))
  THEN Finished(AnalyzeCatch(Err("Invalid base64 image format", 0), lang))
  ELSE Awaiting(ToText(CleanBase64(imageBase64)))

\* analyzeMealImage up to its await: the request ends, or the provider is
\* invoked with the image body
AnalyzeBegin(key, imageBase64, lang) ==
  IF ~key
  THEN Finished(Returned(getFallbackAnalysis(lang)))
  ELSE IF ImageMissing(imageBase64)
  THEN Finished(AnalyzeCatch(Err("Image data is required", 0), lang))
  ELSE IF ~Base64RegexTest(CleanBase64(imageBase64))
  THEN Finished(AnalyzeCatch(Err("Invalid base64 image format", 0), lang))
  ELSE Awaiting(ToText(CleanBase64(imageBase64)))

\* analyzeMealImage after its await
AnalyzeEnd(answer, lang) ==
  LET r == AfterProvider(answer) IN
  IF r.threw THEN AnalyzeCatch(r.error, lang) ELSE Returned(r.value)

\* updateMealAnalysis up to its await
UpdateBegin(key, originalAnalysis, text) ==
  IF ~key
  THEN Finished(Returned(getBasicUpdate(originalAnalysis, text)))
  ELSE Awaiting(<<>>)

\* updateMealAnalysis after its await
UpdateEnd(answer, originalAnalysis, text) ==
  LET r == AfterProvider(answer) IN
  IF r.threw THEN UpdateCatch(r.error, originalAnalysis, text) ELSE Returned(r.value)

----------------------------------------------------------------------------
(* The tables MealPlanService writes *)

Users == {"u1", "u2"}

\* plan_id values; 0 stands for null
PlanIds == 1..MaxPlans

Calls == 1..MaxCalls

\* No row with this plan_id
NoPlan == [exists |-> FALSE, user_id |-> "none", is_active |-> FALSE]

\* No call in this slot
NoCall == [method |-> "none", userId |-> "none", planId |-> 0, pc |-> "idle"]

Call(method, userId, planId, at) ==
  [method |-> method, userId |-> userId, planId |-> planId, pc |-> at]

\* Empty tables, no call in progress
PlanIdle ==
  /\ userMealPlan = [id \in PlanIds |-> NoPlan]
  /\ active_meal_plan_id = [u \in Users |-> 0]
  /\ questionnaire = {}
  /\ inflight = [c \in Calls |-> NoCall]

ReqIdle ==
  /\ pc = "idle"
  /\ entry = "none"
  /\ image = <<>>
  /\ original = EmptyObject
  /\ updateText = <<>>
  /\ calls = 0
  /\ sentBody = <<>>
  /\ outcome = NoOutcome
  /\ result = NoResult

PureIdle ==
  /\ raw = RawObject(EmptyObject)
  /\ rec = EmptyObject
  /\ prev = EmptyObject
  /\ originalAfter = EmptyObject
  /\ lastText = <<>>
  /\ op = "none"
  /\ steps = 0

Init ==
  /\ apiKey \in BOOLEAN
  /\ language = "none"
  /\ ReqIdle
  /\ PureIdle
  /\ PlanIdle

AnalyzeStart ==
  /\ pc = "idle"
  /\ \E img \in Images, lang \in Languages :
       LET b == AnalyzeBegin(apiKey, img, lang) IN
       /\ entry' = "analyzeMealImage"
       /\ image' = img
       /\ language' = lang
       /\ pc' = IF b.await THEN "awaitProvider" ELSE "done"
       /\ calls' = IF b.await THEN Invoke(calls) ELSE calls
       /\ sentBody' = IF b.await THEN Append(sentBody, b.body) ELSE sentBody
       /\ result' = b.result
  /\ UNCHANGED <<apiKey, original, updateText, outcome, pureVars, planVars>>

AnalyzeResolve ==
  /\ pc = "awaitProvider"
  /\ entry = "analyzeMealImage"
  /\ \E answer \in ProviderOutcomes :
       /\ outcome' = answer
       /\ result' = AnalyzeEnd(answer, language)
  /\ pc' = "done"
  /\ UNCHANGED <<apiKey, entry, image, language, original, updateText, calls,
                 sentBody, pureVars, planVars>>

UpdateStart ==
  /\ pc = "idle"
  /\ \E orig \in Originals, text \in Texts, lang \in Languages :
       LET b == UpdateBegin(apiKey, orig, text) IN
       /\ entry' = "updateMealAnalysis"
       /\ original' = orig
       /\ updateText' = text
       /\ language' = lang
       /\ pc' = IF b.await THEN "awaitProvider" ELSE "done"
       /\ calls' = IF b.await THEN Invoke(calls) ELSE calls
       /\ result' = b.result
  /\ UNCHANGED <<apiKey, image, sentBody, outcome, pureVars, planVars>>

UpdateResolve ==
  /\ pc = "awaitProvider"
  /\ entry = "updateMealAnalysis"
  /\ \E answer \in ProviderOutcomes :
       /\ outcome' = answer
       /\ result' = UpdateEnd(answer, original, updateText)
  /\ pc' = "done"
  /\ UNCHANGED <<apiKey, entry, image, language, original, updateText, calls,
                 sentBody, pureVars, planVars>>

\* The caller has its answer; the service is ready for the next request
NextRequest ==
  /\ pc = "done"
  /\ pc' = "idle"
  /\ entry' = "none"
  /\ image' = <<>>
  /\ language' = "none"
  /\ original' = EmptyObject
  /\ updateText' = <<>>
  /\ calls' = 0
  /\ sentBody' = <<>>
  /\ outcome' = NoOutcome
  /\ result' = NoResult
  /\ UNCHANGED <<apiKey, pureVars, planVars>>

Next ==
  \/ AnalyzeStart
  \/ AnalyzeResolve
  \/ UpdateStart
  \/ UpdateResolve
  \/ NextRequest

Spec == Init /\ [][Next]_vars

----------------------------------------------------------------------------
(* The pure functions: normalizeAnalysisResponse, getFallbackAnalysis and   *)
(* chains of getBasicUpdate on the records they produce                     *)

InitRecord ==
  /\ apiKey = FALSE
  /\ ReqIdle
  /\ PlanIdle
  /\ lastText = <<>>
  /\ prev = EmptyObject
  /\ originalAfter = EmptyObject
  /\ rec = EmptyObject
  /\ op = "none"
  /\ steps = 0
  /\ \/ language = "none" /\ raw \in RawInputs
     \/ language \in Languages /\ raw = RawObject(EmptyObject)

Normalize ==
  /\ op = "none"
  /\ language = "none"
  /\ LET r == NormalizeCall(raw) IN
       /\ op' = IF r.threw THEN "normalizeThrew" ELSE "normalize"
       /\ rec' = r.value
  /\ UNCHANGED <<reqVars, planVars, raw, prev, originalAfter, lastText, steps>>

Fallback ==
  /\ op = "none"
  /\ language \in Languages
  /\ op' = "fallback"
  /\ rec' = getFallbackAnalysis(language)
  /\ UNCHANGED <<reqVars, planVars, raw, prev, originalAfter, lastText, steps>>

BasicUpdate ==
  /\ op \in {"normalize", "fallback", "basicUpdate"}
  /\ steps < MaxUpdates
  /\ \E text \in Texts :
       LET call == getBasicUpdateCall(rec, text) IN
       /\ rec' = call.returned
       /\ originalAfter' = call.original
       /\ lastText' = text
  /\ prev' = rec
  /\ op' = "basicUpdate"
  /\ steps' = steps + 1
  /\ UNCHANGED <<reqVars, planVars, raw>>

NextRecord ==
  \/ Normalize
  \/ Fallback
  \/ BasicUpdate

SpecRecord == InitRecord /\ [][NextRecord]_vars

----------------------------------------------------------------------------
(* MealPlanService: the calls that write userMealPlan.is_active and        *)
(* user.active_meal_plan_id, one action per database operation, so that    *)
(* the operations of calls in progress interleave                          *)

Idle(c) == inflight[c] = NoCall

At(c, method, at) == inflight[c].method = method /\ inflight[c].pc = at

\* The call in slot c goes on to its next database operation
Goto(c, call) == inflight' = [inflight EXCEPT ![c] = call]

\* The call in slot c returns
Return(c) == inflight' = [inflight EXCEPT ![c] = NoCall]

FreePlanIds == {id \in PlanIds : ~userMealPlan[id].exists}

Creating == {c \in Calls : inflight[c].method = "createUserMealPlan"}

\* The plan_id the database gives the next row
NewPlanId == CHOOSE id \in FreePlanIds : \A other \in FreePlanIds : id <= other

\* createUserMealPlan: userQuestionnaire.findFirst; without a questionnaire
\* the call throws
createUserMealPlan_findQuestionnaire(c, userId) ==
  /\ Idle(c)
  /\ Cardinality(FreePlanIds) > Cardinality(Creating)
  /\ userId \in questionnaire
  /\ Goto(c, Call("createUserMealPlan", userId, 0, "create"))
  /\ UNCHANGED <<userMealPlan, active_meal_plan_id, questionnaire>>
  /\ UNCHANGED <<reqVars, pureVars>>

\* createUserMealPlan: userMealPlan.create with is_active: true
createUserMealPlan_create(c) ==
  /\ At(c, "createUserMealPlan", "create")
  /\ userMealPlan' =
       [userMealPlan EXCEPT
          ![NewPlanId] =
            [exists |-> TRUE, user_id |-> inflight[c].userId, is_active |-> TRUE]]
  /\ Return(c)
  /\ UNCHANGED <<active_meal_plan_id, questionnaire>>
  /\ UNCHANGED <<reqVars, pureVars>>

\* activatePlan: userMealPlan.update by plan_id; a missing row makes the
\* update, and the call, throw
activatePlan_updatePlan(c, userId, planId) ==
  /\ Idle(c)
  /\ userMealPlan[planId].exists
  /\ userMealPlan' = [userMealPlan EXCEPT ![planId].is_active = TRUE]
  /\ Goto(c, Call("activatePlan", userId, planId, "updateUser"))
  /\ UNCHANGED <<active_meal_plan_id, questionnaire>>
  /\ UNCHANGED <<reqVars, pureVars>>

\* activatePlan: user.update of active_meal_plan_id
activatePlan_updateUser(c) ==
  /\ At(c, "activatePlan", "updateUser")
  /\ active_meal_plan_id' =
       [active_meal_plan_id EXCEPT ![inflight[c].userId] = inflight[c].planId]
  /\ Return(c)
  /\ UNCHANGED <<userMealPlan, questionnaire>>
  /\ UNCHANGED <<reqVars, pureVars>>

\* deactivateUserPlans: userMealPlan.updateMany by user_id
deactivateUserPlans_updateMany(c, userId) ==
  /\ Idle(c)
  /\ userMealPlan' =
       [id \in PlanIds |->
          IF userMealPlan[id].exists /\ userMealPlan[id].user_id = userId
          THEN [userMealPlan[id] EXCEPT !.is_active = FALSE]
          ELSE userMealPlan[id]]
  /\ Goto(c, Call("deactivateUserPlans", userId, 0, "updateUser"))
  /\ UNCHANGED <<active_meal_plan_id, questionnaire>>
  /\ UNCHANGED <<reqVars, pureVars>>

\* deactivateUserPlans: user.update of active_meal_plan_id to null
deactivateUserPlans_updateUser(c) ==
  /\ At(c, "deactivateUserPlans", "updateUser")
  /\ active_meal_plan_id' = [active_meal_plan_id EXCEPT ![inflight[c].userId] = 0]
  /\ Return(c)
  /\ UNCHANGED <<userMealPlan, questionnaire>>
  /\ UNCHANGED <<reqVars, pureVars>>

\* completePlan: its one userMealPlan.update by plan_id, which sets
\* is_active: false; userId is not used
completePlan(c, userId, planId) ==
  /\ Idle(c)
  /\ userMealPlan[planId].exists
  /\ userMealPlan' = [userMealPlan EXCEPT ![planId].is_active = FALSE]
  /\ UNCHANGED <<active_meal_plan_id, questionnaire, inflight>>
  /\ UNCHANGED <<reqVars, pureVars>>

\* deactivateMealPlan: userMealPlan.updateMany by plan_id and user_id
deactivateMealPlan_updateMany(c, userId, planId) ==
  /\ Idle(c)
  /\ userMealPlan' =
       [id \in PlanIds |->
          IF /\ userMealPlan[id].exists
             /\ id = planId
             /\ userMealPlan[id].user_id = userId
          THEN [userMealPlan[id] EXCEPT !.is_active = FALSE]
          ELSE userMealPlan[id]]
  /\ Goto(c, Call("deactivateMealPlan", userId, planId, "findUser"))
  /\ UNCHANGED <<active_meal_plan_id, questionnaire>>
  /\ UNCHANGED <<reqVars, pureVars>>

\* deactivateMealPlan: user.findUnique and the comparison with planId
deactivateMealPlan_findUser(c) ==
  /\ At(c, "deactivateMealPlan", "findUser")
  /\ IF active_meal_plan_id[inflight[c].userId] = inflight[c].planId
     THEN Goto(c, [inflight[c] EXCEPT !.pc = "updateUser"])
     ELSE Return(c)
  /\ UNCHANGED <<userMealPlan, active_meal_plan_id, questionnaire>>
  /\ UNCHANGED <<reqVars, pureVars>>

\* deactivateMealPlan: user.update of active_meal_plan_id to null
deactivateMealPlan_updateUser(c) ==
  /\ At(c, "deactivateMealPlan", "updateUser")
  /\ active_meal_plan_id' = [active_meal_plan_id EXCEPT ![inflight[c].userId] = 0]
  /\ Return(c)
  /\ UNCHANGED <<userMealPlan, questionnaire>>
  /\ UNCHANGED <<reqVars, pureVars>>

InitPlans ==
  /\ apiKey = FALSE
  /\ language = "none"
  /\ ReqIdle
  /\ PureIdle
  /\ userMealPlan = [id \in PlanIds |-> NoPlan]
  /\ active_meal_plan_id = [u \in Users |-> 0]
  /\ questionnaire \in SUBSET Users
  /\ inflight = [c \in Calls |-> NoCall]

NextPlans ==
  \/ \E c \in Calls, userId \in Users : createUserMealPlan_findQuestionnaire(c, userId)
  \/ \E c \in Calls : createUserMealPlan_create(c)
  \/ \E c \in Calls, userId \in Users, planId \in PlanIds :
       activatePlan_updatePlan(c, userId, planId)
  \/ \E c \in Calls : activatePlan_updateUser(c)
  \/ \E c \in Calls, userId \in Users : deactivateUserPlans_updateMany(c, userId)
  \/ \E c \in Calls : deactivateUserPlans_updateUser(c)
  \/ \E c \in Calls, userId \in Users, planId \in PlanIds : completePlan(c, userId, planId)
  \/ \E c \in Calls, userId \in Users, planId \in PlanIds :
       deactivateMealPlan_updateMany(c, userId, planId)
  \/ \E c \in Calls : deactivateMealPlan_findUser(c)
  \/ \E c \in Calls : deactivateMealPlan_updateUser(c)

SpecPlans == InitPlans /\ [][NextPlans]_vars

----------------------------------------------------------------------------
(* Claims about the entry points, checked under Spec *)

RethrownStatuses == {400, 401, 429, 500}

\* C1 as stated: every request to analyzeMealImage or updateMealAnalysis
\* ends by returning a record, never by throwing to the caller.
C1_NeverThrows ==
  pc = "done" => result.kind = "returned"

\* C1, amended: updateMealAnalysis always ends by returning a record;
\* analyzeMealImage ends by returning a record except when the provider
\* call fails with status 400, 401, 429 or 500, and exactly then it ends
\* by throwing to the caller.
C1_ThrowsOnlyListedStatuses ==
  pc = "done" =>
    /\ result.kind \in {"returned", "thrown"}
    /\ result.kind = "thrown" <=>
         /\ entry = "analyzeMealImage"
         /\ outcome.k = "rejected"
         /\ outcome.status \in RethrownStatuses

C1_Witness ==
  /\ pc = "done"
  /\ entry = "analyzeMealImage"
  /\ outcome.k = "rejected"
  /\ outcome.status = 429
  /\ result.kind = "thrown"

\* The image argument fails the validation of analyzeMealImage
ImageInvalid(imageBase64) ==
  ImageMissing(imageBase64) \/ ~Base64RegexTest(CleanBase64(imageBase64))

\* C2: with the provider configured, a request to analyzeMealImage whose
\* image is empty, blank or fails the base64 check ends by throwing a
\* validation error to the caller, not by returning a fallback record.
C2_ValidationErrorThrown ==
  (pc = "done" /\ entry = "analyzeMealImage" /\ apiKey /\ ImageInvalid(image)) =>
    result.kind = "thrown"

\* The text is a well-formed base64 body: only letters, digits, + and /,
\* then at most two = signs
Base64Body(str) ==
  \E pad \in 0..2 :
    /\ pad <= Len(str)
    /\ \A i \in 1..(Len(str) - pad) : str[i] \in Base64Chars
    /\ \A i \in (Len(str) - pad + 1)..Len(str) : str[i] = "="

\* C3: every image body handed to the provider is non-empty and a
\* well-formed base64 body.
C3_ProviderGetsValidBody ==
  \A i \in 1..Len(sentBody) : sentBody[i] # <<>> /\ Base64Body(sentBody[i])

\* C4: without a provider credential every request to analyzeMealImage,
\* whatever its image and language, ends at once by returning
\* getFallbackAnalysis(language), without throwing and without invoking the
\* provider.
C4_UnconfiguredGoesToFallback ==
  (~apiKey /\ entry = "analyzeMealImage") =>
    /\ pc = "done"
    /\ result = Returned(getFallbackAnalysis(language))
    /\ calls = 0
    /\ sentBody = <<>>

C4_Witness ==
  /\ ~apiKey
  /\ entry = "analyzeMealImage"
  /\ pc = "done"
  /\ ImageInvalid(image)
  /\ language = "hebrew"
  /\ result.kind = "returned"

----------------------------------------------------------------------------
(* Claims about the pure functions, checked under SpecRecord *)

NumericAliasFields == {"protein_g", "carbs_g", "fats_g", "fiber_g", "sugar_g", "sodium_mg"}

\* C6: normalizeAnalysisResponse never fails, the raw value null included,
\* and in its record every scalar field is a string or a valid number (not
\* NaN, not null), glycemic_index and insulin_index are null or a valid
\* number, and ingredients is an array, empty when the input's is not one.
C6_NormalizeTotal ==
  /\ op # "normalizeThrew"
  /\ op = "normalize" =>
       /\ \A f \in NumericFields \cup NumericAliasFields : rec[f].t = "number"
       /\ \A f \in TextFields \cup {"meal_name"} : rec[f].t \in {"string", "number"}
       /\ \A f \in NullableFields : rec[f].t \in {"null", "number"}
       /\ rec.ingredients.t = "array"
       /\ raw.o.ingredients.t # "array" => rec.ingredients.a = <<>>

\* The text is an integer literal, white space around it allowed
IsNumericString(str) ==
  LET body == Trim(str) IN
  \/ IsDigits(body)
  \/ body # <<>> /\ Head(body) \in {"+", "-"} /\ IsDigits(Tail(body))

\* The value is present as a number or as a numeric string
IsNumeric(v) == v.t = "number" \/ (v.t = "string" /\ IsNumericString(v.s))

\* The documented default of a numeric field
DefaultOf(f) ==
  IF f = "serving_size_g" THEN 100 ELSE IF f = "confidence" THEN 75 ELSE 0

\* The documented default of a descriptive field
TextDefaultOf(f) ==
  IF f = "processing_level" THEN Str("Moderate")
  ELSE IF f = "health_risk_notes" THEN JStr(<<>>)
  ELSE Str("Mixed")

DescriptiveFields ==
  {"food_category", "processing_level", "cooking_method", "health_risk_notes"}

\* The parts of C7 about the nullable and the descriptive fields
NullableAndTextDefaults ==
  /\ \A f \in NullableFields :
       /\ ~Truthy(raw.o[f]) => rec[f] = JNull
       /\ rec[f] = JNum(0) => Truthy(raw.o[f])
  /\ \A f \in DescriptiveFields :
       ~Truthy(raw.o[f]) => rec[f] = TextDefaultOf(f)

\* C7 as stated: a numeric field that is missing or not numeric in raw gets
\* its default (0; serving_size_g 100; confidence 75); glycemic_index and
\* insulin_index are null when the source is missing or falsy; the four
\* descriptive fields fall back to "Mixed", "Moderate", "Mixed" and "".
C7_DefaultWheneverNotNumeric ==
  op = "normalize" =>
    /\ \A f \in NumericFields :
         ~IsNumeric(raw.o[f]) => rec[f] = JNum(DefaultOf(f))
    /\ NullableAndTextDefaults

\* C7, amended: a numeric field that is missing or not numeric in raw gets
\* its default, unless Number() turns the value into a non-zero number all
\* the same (the boolean true gives 1); then the field is that number.  The
\* rest as stated.
C7_DefaultUnlessCoercible ==
  op = "normalize" =>
    /\ \A f \in NumericFields :
         ~IsNumeric(raw.o[f]) =>
           rec[f] = IF raw.o[f] = JBool(TRUE) THEN JNum(1) ELSE JNum(DefaultOf(f))
    /\ NullableAndTextDefaults

C7_Witness ==
  /\ op = "normalize"
  /\ raw.o.serving_size_g = Str("high")
  /\ raw.o.calories = JUndef
  /\ rec.serving_size_g = JNum(100)
  /\ rec.calories = JNum(0)
  /\ rec.confidence = JNum(75)
  /\ rec.glycemic_index = JNull
  /\ rec.food_category = Str("Mixed")

\* C8: a numeric field present in raw as a number or a numeric string, 0
\* included, comes out of normalizeAnalysisResponse as exactly that number.
C8_PresentValuesPassThrough ==
  op = "normalize" =>
    \A f \in NumericFields :
      IsNumeric(raw.o[f]) => rec[f] = ToNumber(raw.o[f])

\* C9: in every record made by normalizeAnalysisResponse or
\* getFallbackAnalysis, and after any number of getBasicUpdate calls on it,
\* each alias field equals its primary field.
C9_AliasesInSync ==
  op \in {"normalize", "fallback", "basicUpdate"} =>
    /\ rec.meal_name = rec.name
    /\ rec.protein_g = rec.protein
    /\ rec.carbs_g = rec.carbs
    /\ rec.fats_g = rec.fat
    /\ rec.fiber_g = rec.fiber
    /\ rec.sugar_g = rec.sugar
    /\ rec.sodium_mg = rec.sodium

C9_Witness ==
  /\ op = "basicUpdate"
  /\ steps = 2
  /\ rec.protein # prev.protein
  /\ rec.fiber # prev.fiber
  /\ rec.protein_g = rec.protein
  /\ rec.fiber_g = rec.fiber

\* k is num / den rounded to the nearest integer, halves upwards
IsRounded(k, num, den) ==
  /\ 2 * den * k <= 2 * num + den
  /\ 2 * num + den < 2 * den * (k + 1)

\* The field of the updated record is the original's times num / 10,
\* rounded, if the rule matched, and the original's if not
RuleApplied(matched, field, alias, num) ==
  IF matched
  THEN /\ rec[field].t = "number"
       /\ IsRounded(rec[field].n, prev[field].n * num, 10)
       /\ rec[alias] = rec[field]
  ELSE /\ rec[field] = prev[field]
       /\ rec[alias] = prev[alias]

\* C10: getBasicUpdate applies each of its three keyword rules exactly when
\* the lower-cased text contains the rule's English or Hebrew keyword:
\* protein and protein_g become round(protein * 1.2), calories becomes
\* round(calories * 0.8), fiber and fiber_g become round(fiber * 1.3); all
\* matching rules apply, and a field whose rule does not match is kept.
C10_RulesIndependent ==
  op = "basicUpdate" =>
    LET low == ToLowerCase(lastText) IN
    /\ RuleApplied(Includes(low, KwMoreProtein) \/ Includes(low, KwProteinHe),
                   "protein", "protein_g", 12)
    /\ RuleApplied(Includes(low, KwLessCalories) \/ Includes(low, KwLessCaloriesHe),
                   "calories", "calories", 8)
    /\ RuleApplied(Includes(low, KwMoreVegetables) \/ Includes(low, KwVegetablesHe),
                   "fiber", "fiber_g", 13)

C10_Witness ==
  /\ op = "basicUpdate"
  /\ Includes(lastText, KwMoreProtein)
  /\ Includes(lastText, KwLessCalories)
  /\ Includes(lastText, KwMoreVegetables)
  /\ prev.protein = JNum(10) /\ rec.protein = JNum(12) /\ rec.protein_g = JNum(12)
  /\ prev.calories = JNum(100) /\ rec.calories = JNum(80)
  /\ prev.fiber = JNum(5) /\ rec.fiber = JNum(7) /\ rec.fiber_g = JNum(7)

\* C11: whatever the update text, the confidence getBasicUpdate returns is
\* the original confidence minus 10, and 50 where that would be below 50.
C11_ConfidenceMinusTenFloored ==
  op = "basicUpdate" =>
    /\ prev.confidence.t = "number"
    /\ rec.confidence.t = "number"
    /\ rec.confidence.n =
         IF prev.confidence.n - 10 < 50 THEN 50 ELSE prev.confidence.n - 10

\* Two calls in a row, the first from 70 to 60, the second floored at 50,
\* with a text that matches no keyword
C11_Witness ==
  /\ op = "basicUpdate"
  /\ steps = 2
  /\ lastText = <<"o", "k">>
  /\ prev.confidence = JNum(60)
  /\ rec.confidence = JNum(50)

\* The fields getBasicUpdate may write
UpdatedFields ==
  {"protein", "protein_g", "calories", "fiber", "fiber_g", "healthNotes", "confidence"}

\* C12: getBasicUpdate leaves the object passed in unmodified, and in the
\* record it returns every field other than protein, protein_g, calories,
\* fiber, fiber_g, healthNotes and confidence equals the original's.
C12_OriginalUntouched ==
  op = "basicUpdate" =>
    /\ originalAfter = prev
    /\ \A f \in RecordFields \ UpdatedFields : rec[f] = prev[f]

\* A call that changed protein, calories and fiber of a record with
\* ingredients and recommendations
C12_Witness ==
  /\ op = "basicUpdate"
  /\ rec.protein # prev.protein
  /\ rec.calories # prev.calories
  /\ rec.fiber # prev.fiber
  /\ rec.confidence # prev.confidence
  /\ originalAfter.protein = prev.protein
  /\ prev.ingredients.a # <<>>
  /\ rec.ingredients = prev.ingredients
  /\ rec.recommendations = prev.recommendations
  /\ rec.recommendations.s # <<>>

\* C13 as stated: after every getBasicUpdate call, in any sequence of calls
\* on a record of normalizeAnalysisResponse or getFallbackAnalysis, the
\* confidence is a valid number less than or equal to its value before the
\* call.
C13_ConfidenceNeverRises ==
  op = "basicUpdate" =>
    /\ rec.confidence.t = "number"
    /\ prev.confidence.t = "number"
    /\ rec.confidence.n <= prev.confidence.n

\* C13, amended: after every such call the confidence is a valid number; it
\* is less than or equal to its value before the call when that value was
\* at least 50, and it is exactly 50 (a rise) when that value was below 50.
C13_ConfidenceNeverRisesFromFifty ==
  op = "basicUpdate" =>
    /\ rec.confidence.t = "number"
    /\ prev.confidence.t = "number"
    /\ prev.confidence.n >= 50 => rec.confidence.n <= prev.confidence.n
    /\ prev.confidence.n < 50 => rec.confidence.n = 50

\* A second call on a record whose confidence was 200 after normalization
C13_Witness ==
  /\ op = "basicUpdate"
  /\ steps = 2
  /\ prev.confidence = JNum(190)
  /\ rec.confidence = JNum(180)

----------------------------------------------------------------------------
(* Claims about MealPlanService, checked under SpecPlans *)

\* C14: once every call in progress has returned, whatever the calls were
\* and however their database operations interleaved, a user's non-null
\* active_meal_plan_id names a plan whose is_active flag is true.
C14_ActivePlanIsActive ==
  (\A c \in Calls : inflight[c] = NoCall) =>
    \A u \in Users :
      active_meal_plan_id[u] # 0 =>
        /\ userMealPlan[active_meal_plan_id[u]].exists
        /\ userMealPlan[active_meal_plan_id[u]].is_active

====
